---- MODULE Spec2Model ----
(***************************************************************************)
(* The Snowflake data-access helper lib/snowflake.ts of the skill, in its  *)
(* two single-connection forms:                                            *)
(*                                                                         *)
(*   lib = "token"    connection + cachedToken, query() with retry         *)
(*                    (src/unnamed/part_001, lines 150-242)                *)
(*   lib = "promise"  connection + connectionPromise, querySnowflake()     *)
(*                    (src/tpch-dashboard/app/page.tsx, lines 206-288, and *)
(*                    src/unnamed/part_000, lines 80-164)                  *)
(*                                                                         *)
(* One process runs one of the two; lib is chosen in Init and never        *)
(* changes.  The process is a single-threaded event loop: an action is the *)
(* code that runs from one I/O completion (or from the start of a call) to *)
(* the next point where the code waits for I/O, that is to conn.connect /  *)
(* conn.connectAsync or to conn.execute.  The continuation of an await on  *)
(* an already settled promise belongs to the same action.  The token file  *)
(* is written by the platform, outside the process, so it can change       *)
(* between any two reads, including two reads made by one action.          *)
(***************************************************************************)
EXTENDS Integers, Sequences, FiniteSets, TLC

\* ------------------------------------------------------------------ bounds
\* Words in the message of an error handed to isRetryableError().
MaxWords == 4
\* Concurrent callers of query() / querySnowflake().
NumCallers == 2
\* Connections snowflake.createConnection() can hand out in one run.
MaxHandles == 3
\* Largest retry budget a caller passes to query(sql, retries).
MaxRetries == 1
\* query(sql, retries = 1): the budget of a call that names none.
DefaultRetries == 1
\* Changes of the token file in one run.
MaxWrites == 2

Callers == 1..NumCallers
Handles == 1..MaxHandles

\* ------------------------------------------------------- values of the model
\* null / undefined of the source.
Null == "<null>"
\* `connection` when it is null.
NoConn == 0

\* The token file /snowflake/session/token: missing, or present with a
\* content (possibly empty).  A file that exists when it is tested and is
\* gone when it is read is a change of the file between the two.
Absent == "<absent>"
TokenContents == {"", "T1", "T2"}
FileStates == {Absent} \cup TokenContents

\* JavaScript truthiness of a string-or-null value: null and "" are falsy.
Truthy(v) == v # Null /\ v # ""

\* fs.existsSync(tokenPath)
existsSync(f) == f # Absent

\* ------------------------------------------------------------------ errors
\* An error is { message?: string; code?: number }.  A message is the
\* sequence of its words, so that String.includes is a search for a
\* contiguous run of words; hasMessage / hasCode tell a field that is set
\* from one that is undefined.
SessionTimeoutCode == 407002

mkErr(hm, m, hc, c) == [hasMessage |-> hm, message |-> m, hasCode |-> hc, code |-> c]

ErrNames == {"TokenExpired", "SessionTimeout", "TableNotFound", "ReadFailed"}

Err(n) ==
  CASE n = "TokenExpired" ->
         mkErr(TRUE, <<"OAuth", "access", "token", "expired">>, FALSE, 0)
    [] n = "SessionTimeout" ->
         mkErr(TRUE, <<"session", "no", "longer", "exists">>, TRUE, SessionTimeoutCode)
    [] n = "TableNotFound" ->
         mkErr(TRUE, <<"table", "not", "found">>, TRUE, 2003)
    [] n = "ReadFailed" ->
         mkErr(TRUE, <<"EACCES", "permission", "denied">>, FALSE, 0)

\* Errors the warehouse or the driver reports for a connect or an execute.
DriverErrors == {"SessionTimeout", "TableNotFound"}

\* error.message?.includes(pat): undefined (falsy) when there is no message.
includes(error, pat) ==
  /\ error.hasMessage
  /\ \E i \in 0..(Len(error.message) - Len(pat)) :
        \A j \in 1..Len(pat) : error.message[i + j] = pat[j]

\* isRetryableError, as if the code of the error were not looked at.
isRetryableErrorNoCode(error) ==
  \/ includes(error, <<"OAuth", "access", "token", "expired">>)
  \/ includes(error, <<"terminated", "connection">>)

isRetryableError(error) ==
  \/ includes(error, <<"OAuth", "access", "token", "expired">>)
  \/ includes(error, <<"terminated", "connection">>)
  \/ (error.hasCode /\ error.code = SessionTimeoutCode)

\* The error objects isRetryableError() can be handed: with or without a
\* message, made of these words, and with or without a code.
Words == {"OAuth", "access", "token", "expired", "terminated", "connection"}
Messages == UNION {[1..n -> Words] : n \in 0..MaxWords}
ErrorObjects ==
  {mkErr(TRUE, m, FALSE, 0) : m \in Messages}
    \cup {mkErr(TRUE, m, TRUE, k) : m \in Messages, k \in {SessionTimeoutCode, 2003}}
    \cup {mkErr(FALSE, <<>>, FALSE, 0)}
    \cup {mkErr(FALSE, <<>>, TRUE, k) : k \in {SessionTimeoutCode, 2003}}

\* ------------------------------------------------------------- result rows
\* What conn.execute hands to complete(): no row list at all, or a list.
NoRows == [defined |-> FALSE, rows |-> <<>>]
RowLists == {<<>>, <<"r1", "r2">>}
RowResults == {NoRows} \cup {[defined |-> TRUE, rows |-> r] : r \in RowLists}

\* rowsOrEmpty, as if the rows were handed over last first.
rowsReversed(raw) ==
  IF raw.defined THEN [i \in 1..Len(raw.rows) |-> raw.rows[Len(raw.rows) + 1 - i]]
                 ELSE <<>>

\* (rows || []): an array, even an empty one, is truthy.
rowsOrEmpty(raw) == IF raw.defined THEN raw.rows ELSE <<>>

\* --------------------------------------------------------- the token file
\* fs.readFileSync(tokenPath, "utf8"): throws when the file is missing.
readFileSync(f) == IF f = Absent THEN [threw |-> TRUE, value |-> Null]
                                 ELSE [threw |-> FALSE, value |-> f]

\* getOAuthToken(): the content when the file exists; null when it does
\* not, and (the catch) when reading it throws.
getOAuthToken(f) ==
  IF existsSync(f)
    THEN IF readFileSync(f).threw THEN Null ELSE readFileSync(f).value
    ELSE Null

\* getConfig() reading a file in state f: only the fields that select the
\* credential.
getConfig(f) ==
  LET token == getOAuthToken(f) IN
  IF Truthy(token)
    THEN [authenticator |-> "oauth", token |-> token]
    ELSE [authenticator |-> "EXTERNALBROWSER", token |-> Null]

\* ------------------------------------------------------- app/api routes
\* The three GET handlers of the dashboard; each is one caller of
\* querySnowflake().
Routes == <<"revenue", "customers", "orders">>
routeOf(c) == Routes[((c - 1) % Len(Routes)) + 1]

\* The message each handler's catch block answers with.
failedToFetch(route) ==
  CASE route = "revenue" -> "Failed to fetch revenue"
    [] route = "customers" -> "Failed to fetch customers"
    [] route = "orders" -> "Failed to fetch orders"

\* NextResponse.json(body, { status }); the status defaults to 200.
NextResponseJson(body, st) == [threw |-> FALSE, status |-> st, body |-> body]

\* GET, as if the catch block answered with the error it caught.
GETEchoesError(route, e) ==
  IF e.kind = "resolved"
    THEN NextResponseJson(e.rows, 200)
    ELSE NextResponseJson([error |-> e.err], 500)

\* GET(): what the handler of the route returns when its querySnowflake()
\* call has settled as e.
GET(route, e) ==
  IF e.kind = "resolved"
    THEN \* return NextResponse.json(results)
         NextResponseJson(e.rows, 200)
    ELSE \* catch (error): console.error; return the fixed answer
         NextResponseJson([error |-> failedToFetch(route)], 500)

\* ------------------------------------------------------------------- state
VARIABLES
  lib,                \* which lib/snowflake.ts the process runs
  file,               \* state of the token file
  connection,         \* let connection: the cached handle, or NoConn
  cachedToken,        \* let cachedToken (lib = "token")
  connectionPromise,  \* let connectionPromise (lib = "promise")
  handles,            \* every connection createConnection() has made
  created,            \* how many of them
  writes,             \* how many times the token file has changed
  pc,                 \* where each caller's call stands
  retries,            \* the call's remaining retry budget
  conn,               \* const conn of the call: the handle it holds
  token,              \* const token of the getConnection() it waits in
  log,                \* the attempts of the call in progress, oldest first
  settled,            \* the calls that returned or threw in the last step
  classification,     \* the last call of isRetryableError: its argument and result
  revenueData,        \* Home: useState<RevenueData[]>([])
  customerData,       \* Home: useState<CustomerData[]>([])
  orderData,          \* Home: useState<OrderData[]>([])
  loading,            \* Home: useState(true)
  fetchPc,            \* Home: where fetchData() stands
  responses,          \* Home: what each fetch() has settled with
  bodies              \* Home: what each res.json() has settled with

\* The state of the Home page, and the state outside lib/snowflake.ts.
homeVars == <<revenueData, customerData, orderData, loading, fetchPc,
              responses, bodies>>
otherVars == <<classification, homeVars>>

\* The state of lib/snowflake.ts and of its callers.
libVars == <<lib, file, connection, cachedToken, connectionPromise, handles,
             created, writes, pc, retries, conn, token, log, settled>>

vars == <<libVars, otherVars>>

\* A connection object.  status, authenticator, token and destroyed are the
\* driver's; invalidated (the cache was cleared while it held this handle),
\* cfgFile (the file state its configuration was read from) and raced (the
\* file changed between the reads of the call that built it) are history.
unusedHandle ==
  [status |-> "unused", authenticator |-> Null, token |-> Null,
   destroyed |-> FALSE, invalidated |-> FALSE, cfgFile |-> Absent, raced |-> FALSE]

\* snowflake.createConnection(cfg), about to connect; f1 and f2 are the
\* file states the call saw at its first and at its second read.
createConnection(cfg, f1, f2) ==
  [status |-> "connecting", authenticator |-> cfg.authenticator, token |-> cfg.token,
   destroyed |-> FALSE, invalidated |-> FALSE, cfgFile |-> f2, raced |-> (f1 # f2)]

\* connection.destroy(() => {}) on the cached handle cn, if there is one.
destroy(hs, cn) ==
  IF cn = NoConn THEN hs ELSE [hs EXCEPT ![cn].destroyed = TRUE]

\* invalidate, as if clearing the cache marked every handle.
invalidateAll(hs, cn) == [h \in Handles |-> [hs[h] EXCEPT !.invalidated = TRUE]]

\* connection = null: the handle the cache held, if any, is invalidated.
invalidate(hs, cn) ==
  IF cn = NoConn THEN hs ELSE [hs EXCEPT ![cn].invalidated = TRUE]

Stale(hs, h) == hs[h].destroyed \/ hs[h].invalidated

\* A connection object is referenced while the cache, the promise or the
\* running attempt of a call holds it.  Of one that nothing references any
\* more only this is kept: whether it was left open (connected and never
\* destroyed) or not.
Referenced(h) ==
  \/ connection = h
  \/ connectionPromise.conn = h
  \/ \E c \in Callers : conn[c] = h

leftOpen ==
  [status |-> "ready", authenticator |-> Null, token |-> Null,
   destroyed |-> FALSE, invalidated |-> FALSE, cfgFile |-> Absent, raced |-> FALSE]
closed ==
  [status |-> "closed", authenticator |-> Null, token |-> Null,
   destroyed |-> FALSE, invalidated |-> FALSE, cfgFile |-> Absent, raced |-> FALSE]

\* The handles after a step that leaves them as hs.
keep(hs) ==
  [h \in Handles |->
     IF hs[h].status = "unused" \/ Referenced(h)' THEN hs[h]
     ELSE IF hs[h].status = "ready" /\ ~hs[h].destroyed THEN leftOpen ELSE closed]

\* One attempt of a call in progress: the handle it runs on, how far it got
\* ("connect" or "execute"), how it ended ("pending", "ok" or an error), and
\* whether the handle was already destroyed or invalidated when the
\* statement was submitted on it; release tells how the destroy of the old
\* handle ended when the attempt began with one ("none", "ok" or "failed").
attempt(h, stage, stale) ==
  [conn |-> h, where |-> stage, out |-> "pending", staleAtSubmit |-> stale,
   release |-> "none"]

setLast(lg, field, v) == [lg EXCEPT ![Len(lg)] = [@ EXCEPT ![field] = v]]

\* What the last step handed to a caller: nothing, the rows its call
\* resolved with (raw is what complete() received), or the error its call
\* rejected with.  attempts tells, for each attempt of the call, how far it
\* got and how it ended; budget is the retry budget the call was made with
\* (left is what remains of it: each retry used one).
summary(lg) == [i \in 1..Len(lg) |-> [where |-> lg[i].where, out |-> lg[i].out]]
budgetOf(left, lg) == IF lg = <<>> THEN left ELSE left + Len(lg) - 1
notSettled ==
  [kind |-> "none", rows |-> <<>>, raw |-> NoRows, err |-> Null,
   attempts |-> <<>>, budget |-> 0]
\* resolvedWith, as if the promise of the call were left unsettled.
resolvedWithNothing(r, rw, left, lg) == notSettled

\* rejectedWith, as if the call threw the error of its first attempt.
rejectedWithFirst(e, left, lg) ==
  [kind |-> "rejected", rows |-> <<>>, raw |-> NoRows,
   err |-> IF lg = <<>> THEN e ELSE lg[1].out,
   attempts |-> summary(lg), budget |-> budgetOf(left, lg)]

resolvedWith(r, rw, left, lg) ==
  [kind |-> "resolved", rows |-> r, raw |-> rw, err |-> Null,
   attempts |-> summary(lg), budget |-> budgetOf(left, lg)]
rejectedWith(e, left, lg) ==
  [kind |-> "rejected", rows |-> <<>>, raw |-> NoRows, err |-> e,
   attempts |-> summary(lg), budget |-> budgetOf(left, lg)]
noneSettled == [c \in Callers |-> notSettled]

noPromise == [state |-> "null", conn |-> NoConn, err |-> Null]

\* isRetryableError has not been called.
notClassified == [called |-> FALSE, err |-> mkErr(FALSE, <<>>, FALSE, 0), retryable |-> FALSE]

\* A JSON value as the page receives it: an array of records, or an object
\* with the one field error.
jsonArray(rows) == [isArray |-> TRUE, rows |-> rows, error |-> Null]
jsonObject(msg) == [isArray |-> FALSE, rows |-> <<>>, error |-> msg]

\* A fetch() or a res.json() that has not settled, one that resolved with
\* the status and the JSON value v, and one that rejected.
pendingIO == [state |-> "pending", status |-> 0, value |-> jsonArray(<<>>)]
fulfilledIO(st, v) == [state |-> "fulfilled", status |-> st, value |-> v]
rejectedIO == [state |-> "rejected", status |-> 0, value |-> jsonArray(<<>>)]
RouteIds == 1..Len(Routes)

\* The process after start-up, when the platform has already changed the
\* token file w times.
InitAfter(w) ==
  /\ lib \in {"token", "promise"}
  /\ file \in FileStates
  /\ connection = NoConn
  /\ cachedToken = Null
  /\ connectionPromise = noPromise
  /\ handles = [h \in Handles |-> unusedHandle]
  /\ created = 0
  /\ writes = w
  /\ pc = [c \in Callers |-> "idle"]
  /\ retries = [c \in Callers |-> 0]
  /\ conn = [c \in Callers |-> NoConn]
  /\ token = [c \in Callers |-> Null]
  /\ log = [c \in Callers |-> <<>>]
  /\ settled = noneSettled
  /\ classification = notClassified
  /\ revenueData = jsonArray(<<>>)
  /\ customerData = jsonArray(<<>>)
  /\ orderData = jsonArray(<<>>)
  /\ loading = TRUE
  /\ fetchPc = "mounted"
  /\ responses = [i \in RouteIds |-> pendingIO]
  /\ bodies = [i \in RouteIds |-> pendingIO]

Init == InitAfter(0)

\* The second read of the file in one step sees f2: the file as it was, or
\* as the platform has changed it meanwhile.
SecondRead(f2) ==
  /\ f2 # file => writes < MaxWrites
  /\ file' = f2
  /\ writes' = IF f2 # file THEN writes + 1 ELSE writes

\* The caller is back where it can make its next call.
backToIdle(c) ==
  /\ pc' = [pc EXCEPT ![c] = "idle"]
  /\ retries' = [retries EXCEPT ![c] = 0]
  /\ conn' = [conn EXCEPT ![c] = NoConn]
  /\ token' = [token EXCEPT ![c] = Null]
  /\ log' = [log EXCEPT ![c] = <<>>]

\* ------------------------------------------------------ lib = "token"
\* reuseCached, as if only the absence of a token let the handle be reused.
reuseCachedNoToken(cn, tok, cached) == cn # NoConn /\ ~Truthy(tok)

\* The cache test of getConnection(), for the token it has just read.
reuseCached(cn, tok, cached) == cn # NoConn /\ (~Truthy(tok) \/ tok = cached)

\* What the driver can pass to the callback of destroy() on the handle cn:
\* no error, or the error of a release that failed.
DestroyErrors(cn) == IF cn = NoConn THEN {Null} ELSE {Null, "DestroyFailed"}

released(cn, err) ==
  IF cn = NoConn THEN "none" ELSE IF err = Null THEN "ok" ELSE "failed"

\* releaseThrows, as if getConnection() threw the error of the release.
releaseThrowsError(err) == err # Null

\* connection.destroy(() => {}): the callback drops the error it is passed
\* and getConnection() does not wait for it, so nothing is thrown.
releaseThrows(err) == FALSE

\* whileConnecting, as if `connection = conn` came before the await.
cachedBeforeConnect(cn, h) == h

\* `connection` while getConnection() waits for the connectAsync of the new
\* handle h: still cn, as the assignment follows the await.
whileConnecting(cn, h) == cn

\* query(): `const conn = await getConnection()` up to conn.execute(...) or
\* to the wait for connectAsync.  cn is `connection` and hs the handles when
\* it starts, r the budget of this (possibly recursive) call, lg its log.
tryBlock(c, cn, hs, r, lg) ==
  LET tok == getOAuthToken(file) IN
  /\ retries' = [retries EXCEPT ![c] = r]
  /\ connection' = IF reuseCached(cn, tok, cachedToken)
                     THEN cn ELSE whileConnecting(cn, created + 1)
  /\ UNCHANGED <<lib, cachedToken, connectionPromise>>
  /\ IF reuseCached(cn, tok, cachedToken)
       THEN \* return connection; conn.execute(...)
            /\ UNCHANGED <<file, writes, created>>
            /\ settled' = noneSettled
            /\ pc' = [pc EXCEPT ![c] = "executing"]
            /\ conn' = [conn EXCEPT ![c] = cn]
            /\ token' = [token EXCEPT ![c] = Null]
            /\ log' = [log EXCEPT ![c] =
                         Append(lg, attempt(cn, "execute", Stale(hs, cn)))]
            /\ handles' = keep(hs)
       ELSE \* destroy the old handle, createConnection(getConfig()),
            \* await conn.connectAsync; getConfig() reads the file again
            \E rel \in DestroyErrors(cn) :
              IF releaseThrows(rel)
                THEN \* the release error leaves getConnection() and query()
                     /\ settled' = [noneSettled EXCEPT ![c] = rejectedWith(rel, r, lg)]
                     /\ pc' = [pc EXCEPT ![c] = "idle"]
                     /\ conn' = [conn EXCEPT ![c] = NoConn]
                     /\ token' = [token EXCEPT ![c] = Null]
                     /\ log' = [log EXCEPT ![c] = <<>>]
                     /\ UNCHANGED <<file, writes, created>>
                     /\ handles' = keep(destroy(hs, cn))
                ELSE /\ created < MaxHandles
                     /\ created' = created + 1
                     /\ settled' = noneSettled
                     /\ pc' = [pc EXCEPT ![c] = "connecting"]
                     /\ conn' = [conn EXCEPT ![c] = created + 1]
                     /\ token' = [token EXCEPT ![c] = tok]
                     /\ log' = [log EXCEPT ![c] =
                          Append(lg, [attempt(created + 1, "connect", FALSE)
                                        EXCEPT !.release = released(cn, rel)])]
                     /\ \E f2 \in FileStates :
                          /\ SecondRead(f2)
                          /\ handles' = keep([destroy(hs, cn) EXCEPT ![created + 1] =
                                              createConnection(getConfig(f2), file, f2)])

\* shouldRetry, as if the budget were never looked at.
shouldRetryNoBudget(r, err) == isRetryableError(Err(err))

\* shouldRetry, as if nothing were ever retried.
shouldRetryNever(r, err) == FALSE

\* shouldRetry, as if every error were retried while budget remains.
shouldRetryAnyError(r, err) == r > 0

\* nulled, as if the catch block left the cache alone.
notNulled(cn) == cn

\* connection = null in the catch block: what `connection` is afterwards.
nulled(cn) == NoConn

\* The test of the catch block: retries > 0 && isRetryableError(err).
shouldRetry(r, err) == r > 0 /\ isRetryableError(Err(err))

\* query(): the catch block, for the error err of the attempt; hs and lg
\* already record the failure.
catchBlock(c, err, hs, lg) ==
  IF shouldRetry(retries[c], err)
    THEN \* connection = null; return query(sql, retries - 1)
         tryBlock(c, nulled(connection), invalidate(hs, connection), retries[c] - 1, lg)
    ELSE \* throw err
         /\ backToIdle(c)
         /\ settled' = [noneSettled EXCEPT ![c] = rejectedWith(err, retries[c], lg)]
         /\ UNCHANGED <<lib, file, connection, cachedToken, connectionPromise,
                        created, writes>>
         /\ handles' = keep(hs)

\* A caller calls query(sql, r).
query(c, r) ==
  /\ lib = "token"
  /\ UNCHANGED otherVars
  /\ pc[c] = "idle"
  /\ tryBlock(c, connection, handles, r, <<>>)

\* conn.connectAsync resolves: connection = conn; cachedToken = token;
\* return connection; then query() submits the statement on it.
connectAsyncResolved(c) ==
  /\ lib = "token"
  /\ UNCHANGED otherVars
  /\ pc[c] = "connecting"
  /\ connection' = conn[c]
  /\ cachedToken' = token[c]
  /\ pc' = [pc EXCEPT ![c] = "executing"]
  /\ conn' = [conn EXCEPT ![c] = connection']
  /\ token' = [token EXCEPT ![c] = Null]
  /\ log' = [log EXCEPT ![c] =
               setLast(setLast(log[c], "where", "execute"),
                       "staleAtSubmit", Stale(handles, connection'))]
  /\ settled' = noneSettled
  /\ UNCHANGED <<lib, file, connectionPromise, created, writes, retries>>
  /\ handles' = keep([handles EXCEPT ![conn[c]].status = "ready"])

\* conn.connectAsync rejects with err: getConnection() throws into query().
connectAsyncRejected(c, err) ==
  /\ lib = "token"
  /\ UNCHANGED otherVars
  /\ pc[c] = "connecting"
  /\ catchBlock(c, err, [handles EXCEPT ![conn[c]].status = "failed"],
                setLast(log[c], "out", err))

\* complete(undefined, stmt, rows): resolve((rows || [])).  A statement
\* submitted on a destroyed connection does not succeed.
executeComplete(c, raw) ==
  /\ lib = "token"
  /\ UNCHANGED otherVars
  /\ pc[c] = "executing"
  /\ ~(handles[conn[c]].destroyed /\ log[c][Len(log[c])].staleAtSubmit)
  /\ backToIdle(c)
  /\ settled' = [noneSettled EXCEPT ![c] =
                   resolvedWith(rowsOrEmpty(raw), raw, retries[c],
                                setLast(log[c], "out", "ok"))]
  /\ UNCHANGED <<lib, file, connection, cachedToken, connectionPromise,
                 created, writes>>
  /\ handles' = keep(handles)

\* complete(err): reject(err), caught by query().
executeError(c, err) ==
  /\ lib = "token"
  /\ UNCHANGED otherVars
  /\ pc[c] = "executing"
  /\ catchBlock(c, err, handles, setLast(log[c], "out", err))

\* ---------------------------------------------------- lib = "promise"
\* The body of the async function stored in connectionPromise, up to its
\* wait for conn.connect / conn.connectAsync; it throws when readFileSync
\* does.  c is the caller that starts it.
startConnecting(c) ==
  IF existsSync(file)
    THEN \E f2 \in FileStates :
           /\ SecondRead(f2)
           /\ IF readFileSync(f2).threw
                THEN /\ connectionPromise' =
                          [state |-> "rejected", conn |-> NoConn, err |-> "ReadFailed"]
                     /\ backToIdle(c)
                     /\ settled' = [noneSettled EXCEPT ![c] = rejectedWith("ReadFailed", 0, <<>>)]
                     /\ UNCHANGED <<handles, created>>
                ELSE /\ created < MaxHandles
                     /\ handles' = [handles EXCEPT ![created + 1] =
                          createConnection([authenticator |-> "OAUTH",
                                            token |-> readFileSync(f2).value], file, f2)]
                     /\ created' = created + 1
                     /\ connectionPromise' =
                          [state |-> "pending", conn |-> created + 1, err |-> Null]
                     /\ pc' = [pc EXCEPT ![c] = "awaiting"]
                     /\ log' = [log EXCEPT ![c] =
                                  <<attempt(created + 1, "connect", FALSE)>>]
                     /\ settled' = noneSettled
                     /\ UNCHANGED <<retries, conn, token>>
    ELSE /\ created < MaxHandles
         /\ handles' = [handles EXCEPT ![created + 1] =
              createConnection([authenticator |-> "EXTERNALBROWSER", token |-> Null],
                               file, file)]
         /\ created' = created + 1
         /\ connectionPromise' = [state |-> "pending", conn |-> created + 1, err |-> Null]
         /\ pc' = [pc EXCEPT ![c] = "awaiting"]
         /\ log' = [log EXCEPT ![c] = <<attempt(created + 1, "connect", FALSE)>>]
         /\ settled' = noneSettled
         /\ UNCHANGED <<file, writes, retries, conn, token>>

\* querySnowflake(): conn.execute(...) on the handle getConnection() gave.
submit(c, h) ==
  /\ pc' = [pc EXCEPT ![c] = "executing"]
  /\ conn' = [conn EXCEPT ![c] = h]
  /\ log' = [log EXCEPT ![c] = <<attempt(h, "execute", Stale(handles, h))>>]
  /\ settled' = noneSettled
  /\ UNCHANGED <<file, writes, connectionPromise, handles, created, retries, token>>

\* marker, as if the promise were never looked at.
markerIgnored == "null"

\* What `if (connectionPromise)` finds: no promise, or one that is pending,
\* fulfilled or rejected (each of them truthy).
marker == connectionPromise.state

\* A caller calls querySnowflake(sql): getConnection() and what follows it
\* up to the first wait.
querySnowflake(c) ==
  /\ lib = "promise"
  /\ UNCHANGED otherVars
  /\ pc[c] = "idle"
  /\ UNCHANGED <<lib, connection, cachedToken>>
  /\ IF connection # NoConn
       THEN submit(c, connection)
       ELSE CASE marker = "null" -> startConnecting(c)
              [] marker = "pending" ->
                   /\ pc' = [pc EXCEPT ![c] = "awaiting"]
                   /\ log' = [log EXCEPT ![c] =
                        <<attempt(connectionPromise.conn, "connect", FALSE)>>]
                   /\ settled' = noneSettled
                   /\ UNCHANGED <<file, writes, connectionPromise, handles, created,
                                  retries, conn, token>>
              [] marker = "fulfilled" ->
                   submit(c, connectionPromise.conn)
              [] marker = "rejected" ->
                   /\ backToIdle(c)
                   /\ settled' = [noneSettled EXCEPT ![c] =
                                    rejectedWith(connectionPromise.err, 0, <<>>)]
                   /\ UNCHANGED <<file, writes, connectionPromise, handles, created>>

Awaiting == {c \in Callers : pc[c] = "awaiting"}

\* conn.connect / conn.connectAsync succeeds: connection = conn, the promise
\* is fulfilled, and every call waiting for it submits its statement.
connectResolved ==
  /\ lib = "promise"
  /\ UNCHANGED otherVars
  /\ connectionPromise.state = "pending"
  /\ connection' = connectionPromise.conn
  /\ connectionPromise' = [connectionPromise EXCEPT !.state = "fulfilled"]
  /\ handles' = [handles EXCEPT ![connectionPromise.conn].status = "ready"]
  /\ pc' = [c \in Callers |-> IF c \in Awaiting THEN "executing" ELSE pc[c]]
  /\ conn' = [c \in Callers |-> IF c \in Awaiting THEN connection' ELSE conn[c]]
  /\ log' = [c \in Callers |->
               IF c \in Awaiting THEN setLast(log[c], "where", "execute") ELSE log[c]]
  /\ settled' = noneSettled
  /\ UNCHANGED <<lib, file, cachedToken, created, writes, retries, token>>

\* The connect fails with err: the promise is rejected, and so is every call
\* waiting for it.
connectRejected(err) ==
  /\ lib = "promise"
  /\ UNCHANGED otherVars
  /\ connectionPromise.state = "pending"
  /\ connectionPromise' = [connectionPromise EXCEPT !.state = "rejected", !.err = err]
  /\ handles' = [handles EXCEPT ![connectionPromise.conn].status = "failed"]
  /\ pc' = [c \in Callers |-> IF c \in Awaiting THEN "idle" ELSE pc[c]]
  /\ log' = [c \in Callers |-> IF c \in Awaiting THEN <<>> ELSE log[c]]
  /\ settled' = [c \in Callers |->
                   IF c \in Awaiting THEN rejectedWith(err, 0, setLast(log[c], "out", err))
                                     ELSE notSettled]
  /\ UNCHANGED <<lib, file, connection, cachedToken, created, writes,
                 retries, conn, token>>

\* complete(undefined, stmt, rows): resolve((rows || [])).
snowflakeRows(c, raw) ==
  /\ lib = "promise"
  /\ UNCHANGED otherVars
  /\ pc[c] = "executing"
  /\ backToIdle(c)
  /\ settled' = [noneSettled EXCEPT ![c] =
                   resolvedWith(rowsOrEmpty(raw), raw, retries[c],
                                setLast(log[c], "out", "ok"))]
  /\ UNCHANGED <<lib, file, connection, cachedToken, connectionPromise,
                 created, writes>>
  /\ handles' = keep(handles)

\* complete(err): console.error; reject(err).
snowflakeError(c, err) ==
  /\ lib = "promise"
  /\ UNCHANGED otherVars
  /\ pc[c] = "executing"
  /\ backToIdle(c)
  /\ settled' = [noneSettled EXCEPT ![c] =
                   rejectedWith(err, 0, setLast(log[c], "out", err))]
  /\ UNCHANGED <<lib, file, connection, cachedToken, connectionPromise,
                 created, writes>>
  /\ handles' = keep(handles)

\* ------------------------------------------------------------ environment
\* The platform rewrites, empties or removes the token file.
writeTokenFile(f) ==
  /\ f # file
  /\ writes < MaxWrites
  /\ writes' = writes + 1
  /\ file' = f
  /\ settled' = noneSettled
  /\ UNCHANGED <<lib, connection, cachedToken, connectionPromise, handles,
                 created, pc, retries, conn, token, log>>
  /\ UNCHANGED otherVars

Next ==
  \/ \E c \in Callers, r \in 0..MaxRetries : query(c, r)
  \/ \E c \in Callers : connectAsyncResolved(c)
  \/ \E c \in Callers, err \in DriverErrors : connectAsyncRejected(c, err)
  \/ \E c \in Callers, raw \in RowResults : executeComplete(c, raw)
  \/ \E c \in Callers, err \in DriverErrors : executeError(c, err)
  \/ \E c \in Callers : querySnowflake(c)
  \/ connectResolved
  \/ \E err \in DriverErrors : connectRejected(err)
  \/ \E c \in Callers, raw \in RowResults : snowflakeRows(c, raw)
  \/ \E c \in Callers, err \in DriverErrors : snowflakeError(c, err)
  \/ \E f \in FileStates : writeTokenFile(f)

Spec == Init /\ [][Next]_vars

\* The process that runs the lib/snowflake.ts with connectionPromise.
InitPromise == Init /\ lib = "promise"

NextPromise ==
  \/ \E c \in Callers : querySnowflake(c)
  \/ connectResolved
  \/ \E err \in DriverErrors : connectRejected(err)
  \/ \E c \in Callers, raw \in RowResults : snowflakeRows(c, raw)
  \/ \E c \in Callers, err \in DriverErrors : snowflakeError(c, err)
  \/ \E f \in FileStates : writeTokenFile(f)

SpecPromise == InitPromise /\ [][NextPromise]_vars

\* ------------------------------------------- query() with I/O that completes
\* The process that runs the lib/snowflake.ts with cachedToken, when the
\* driver answers every connect and every statement: the wait of caller c
\* for connectAsync, or for the complete callback, ends.  The token file is
\* one the platform no longer changes.
ConnectCompletes(c) ==
  \/ connectAsyncResolved(c)
  \/ \E err \in DriverErrors : connectAsyncRejected(c, err)

ExecuteCompletes(c) ==
  \/ \E raw \in RowResults : executeComplete(c, raw)
  \/ \E err \in DriverErrors : executeError(c, err)

InitQuery == InitAfter(MaxWrites) /\ lib = "token"

NextQuery ==
  \/ \E c \in Callers, r \in 0..MaxRetries : query(c, r)
  \/ \E c \in Callers : connectAsyncResolved(c)
  \/ \E c \in Callers, err \in DriverErrors : connectAsyncRejected(c, err)
  \/ \E c \in Callers, raw \in RowResults : executeComplete(c, raw)
  \/ \E c \in Callers, err \in DriverErrors : executeError(c, err)

SpecQueryFair ==
  /\ InitQuery
  /\ [][NextQuery]_vars
  /\ \A c \in Callers : WF_vars(ConnectCompletes(c)) /\ WF_vars(ExecuteCompletes(c))

\* ------------------------------------------------- isRetryableError alone
\* isRetryableError(error) is called with the error object e; one call is
\* followed, as the function keeps no state.
classify(e) ==
  /\ ~classification.called
  /\ classification' = [called |-> TRUE, err |-> e, retryable |-> isRetryableError(e)]
  /\ UNCHANGED <<libVars, homeVars>>

InitClassify == Init /\ lib = "token" /\ file = Absent

NextClassify == \E e \in ErrorObjects : classify(e)

SpecClassify == InitClassify /\ [][NextClassify]_vars

\* ------------------------------------------------------- the Home page
\* What querySnowflake() can settle with inside a route handler.
QueryOutcomes ==
  {[kind |-> "resolved", rows |-> r, err |-> Null] : r \in RowLists}
    \cup {[kind |-> "rejected", rows |-> <<>>, err |-> Err(n)] : n \in DriverErrors}

\* res.json() of a route's answer: the handlers answer with the rows, an
\* array, under status 200 and with the object { error } under status 500.
json(res) ==
  IF res.status = 200 THEN jsonArray(res.body) ELSE jsonObject(res.body.error)

\* What fetch() of route i can settle with: the answer of the route's GET,
\* whatever its status, or a rejection when no answer arrives.
FetchOutcomes(i) ==
  {fulfilledIO(GET(Routes[i], e).status, json(GET(Routes[i], e))) : e \in QueryOutcomes}
    \cup {rejectedIO}

allFulfilled(ios) == \A i \in RouteIds : ios[i].state = "fulfilled"
allSettled(ios) == \A i \in RouteIds : ios[i].state # "pending"
anyRejected(ios) == \E i \in RouteIds : ios[i].state = "rejected"

\* The end of fetchData, as if finally ran only when the try block
\* completed.
endOfFetchDataNoFinally(threw, decoded) ==
  IF threw
    THEN [revenueData |-> revenueData, customerData |-> customerData,
          orderData |-> orderData, loading |-> loading]
    ELSE [revenueData |-> decoded[1].value, customerData |-> decoded[2].value,
          orderData |-> decoded[3].value, loading |-> FALSE]

\* The end of fetchData: the three setters when nothing threw, nothing but
\* console.error when an await threw, and setLoading(false) in both cases.
endOfFetchData(threw, decoded) ==
  IF threw
    THEN [revenueData |-> revenueData, customerData |-> customerData,
          orderData |-> orderData, loading |-> FALSE]
    ELSE [revenueData |-> decoded[1].value, customerData |-> decoded[2].value,
          orderData |-> decoded[3].value, loading |-> FALSE]

finish(threw, decoded) ==
  /\ revenueData' = endOfFetchData(threw, decoded).revenueData
  /\ customerData' = endOfFetchData(threw, decoded).customerData
  /\ orderData' = endOfFetchData(threw, decoded).orderData
  /\ loading' = endOfFetchData(threw, decoded).loading
  /\ fetchPc' = "done"

\* useEffect: fetchData() is called once after the first render and issues
\* the three fetch() calls.
fetchData ==
  /\ fetchPc = "mounted"
  /\ fetchPc' = "fetching"
  /\ UNCHANGED <<revenueData, customerData, orderData, loading, responses, bodies>>
  /\ UNCHANGED <<libVars, classification>>

\* fetch() of route i settles with out.  The first Promise.all rejects with
\* the first rejection and resolves when the three have resolved; fetchData
\* then calls json() on the three answers.
fetchSettled(i, out) ==
  /\ fetchPc # "mounted"
  /\ responses[i].state = "pending"
  /\ responses' = [responses EXCEPT ![i] = out]
  /\ bodies' = bodies
  /\ IF fetchPc = "fetching" /\ out.state = "rejected"
       THEN finish(TRUE, bodies)
       ELSE /\ fetchPc' = IF fetchPc = "fetching" /\ allFulfilled(responses')
                            THEN "decoding" ELSE fetchPc
            /\ UNCHANGED <<revenueData, customerData, orderData, loading>>
  /\ UNCHANGED <<libVars, classification>>

\* json() of the answer of route i settles: with the decoded value, or with
\* a rejection when the body cannot be read as JSON.  The second Promise.all
\* rejects with the first rejection and resolves when the three have.
jsonSettled(i, ok) ==
  /\ allFulfilled(responses)
  /\ bodies[i].state = "pending"
  /\ bodies' = [bodies EXCEPT ![i] = IF ok THEN responses[i] ELSE rejectedIO]
  /\ responses' = responses
  /\ IF fetchPc = "decoding" /\ ~ok
       THEN finish(TRUE, bodies')
       ELSE IF fetchPc = "decoding" /\ allFulfilled(bodies')
              THEN finish(FALSE, bodies')
              ELSE UNCHANGED <<revenueData, customerData, orderData, loading, fetchPc>>
  /\ UNCHANGED <<libVars, classification>>

FetchCompletes(i) == \E out \in FetchOutcomes(i) : fetchSettled(i, out)
JsonCompletes(i) == \E ok \in BOOLEAN : jsonSettled(i, ok)

InitHome == Init /\ lib = "promise" /\ file = Absent

NextHome ==
  \/ fetchData
  \/ \E i \in RouteIds : \E out \in FetchOutcomes(i) : fetchSettled(i, out)
  \/ \E i \in RouteIds, ok \in BOOLEAN : jsonSettled(i, ok)

SpecHome == InitHome /\ [][NextHome]_vars

\* The page with a network and bodies that settle every request and every
\* decoding in the end.
SpecHomeFair ==
  /\ InitHome
  /\ [][NextHome]_vars
  /\ WF_vars(fetchData)
  /\ \A i \in RouteIds : WF_vars(FetchCompletes(i)) /\ WF_vars(JsonCompletes(i))

\* ================================================================ claims
IsDelegated(h) == handles[h].authenticator \in {"oauth", "OAUTH"}
Connecting == {h \in Handles : handles[h].status = "connecting"}
\* Caller c calls query() / querySnowflake() in this step.
Calls(c) == pc[c] = "idle" /\ pc'[c] # "idle"
\* The errors of the model that carry a session-expiry signal.
Recoverable == {"TokenExpired", "SessionTimeout"}

\* C1: with connectionPromise, the calls that arrive before the first
\* construction completes cause one construction only: one connection is
\* ever created, every call waiting for the pending promise waits for that
\* connection, none is left waiting once it is connected, and every call
\* that has a handle has that one, which is the cached one.
C1_SingleConstruction ==
  lib = "promise" =>
    /\ created <= 1
    /\ connectionPromise.state = "pending" =>
         /\ created = 1
         /\ connectionPromise.conn = 1
         /\ handles[1].status = "connecting"
         /\ \A c \in Awaiting : log[c][1].conn = 1
    /\ connectionPromise.state # "pending" => Awaiting = {}
    /\ \A c \in Callers : pc[c] = "executing" =>
         conn[c] = 1 /\ connection = 1 /\ handles[1].status = "ready"

\* Every caller has called on a cold start and waits for the one pending
\* construction.
C1_Witness ==
  /\ lib = "promise"
  /\ Awaiting = Callers
  /\ created = 1
  /\ connectionPromise.state = "pending"

\* C2 (as claimed): with cachedToken, at most one connection is being
\* established at any time.
C2_OneInFlight == lib = "token" => Cardinality(Connecting) <= 1

\* C3: a call made with the default budget whose first execution fails with
\* a recoverable error makes a second attempt; it resolves with the rows of
\* that attempt when it succeeds, and rejects with its error when it fails.
C3_RetryOnRecoverable ==
  \A c \in Callers :
    LET e == settled[c] IN
    ( /\ lib = "token"
      /\ e.kind # "none"
      /\ e.budget = DefaultRetries
      /\ e.attempts[1].where = "execute"
      /\ e.attempts[1].out \in Recoverable )
    => /\ Len(e.attempts) = 2
       /\ e.attempts[2].out = "ok" =>
            /\ e.kind = "resolved"
            /\ e.rows = (IF e.raw.defined THEN e.raw.rows ELSE <<>>)
       /\ e.attempts[2].out # "ok" =>
            /\ e.kind = "rejected"
            /\ e.err = e.attempts[2].out

\* A call resolved with rows by its second attempt, after a recoverable
\* failure of its first execution.
C3_Witness ==
  \E c \in Callers :
    /\ lib = "token"
    /\ settled[c].kind = "resolved"
    /\ settled[c].budget = DefaultRetries
    /\ Len(settled[c].attempts) = 2
    /\ settled[c].attempts[1].where = "execute"
    /\ settled[c].attempts[1].out \in Recoverable
    /\ settled[c].rows # <<>>

\* C4: an execution that fails with an error that is not recoverable is
\* never followed by a retry, whatever budget is left: the call rejects in
\* that step with that error, and the step creates no connection and leaves
\* the cached handle and the cached token as they were.
C4_NoRetryOnOther ==
  [][\A c \in Callers :
       /\ \A i \in 1..(Len(log'[c]) - 1) : log'[c][i].out \in Recoverable
       /\ ( /\ lib = "token"
            /\ pc[c] = "executing"
            /\ settled'[c].kind = "rejected"
            /\ settled'[c].err \notin Recoverable )
          => /\ settled'[c].err = settled'[c].attempts[Len(settled'[c].attempts)].out
             /\ pc'[c] = "idle"
             /\ created' = created
             /\ connection' = connection
             /\ cachedToken' = cachedToken]_vars

\* A first execution failed with an error that is not recoverable while
\* the call still had budget, and the call rejected after that one attempt.
C4_Witness ==
  \E c \in Callers :
    /\ lib = "token"
    /\ settled[c].kind = "rejected"
    /\ settled[c].err = "TableNotFound"
    /\ settled[c].budget > 0
    /\ Len(settled[c].attempts) = 1
    /\ settled[c].attempts[1].where = "execute"
    /\ connection # NoConn

\* C5 (as claimed): a call that finds a cached handle built from token T1
\* while the file holds another content T2 (and keeps it during the call)
\* destroys the old handle, creates a handle whose configuration carries
\* T2 and waits for it, not for the old one.
C5_TokenRotation ==
  [][\A c \in Callers :
       ( /\ lib = "token"
         /\ Calls(c)
         /\ connection # NoConn
         /\ Truthy(handles[connection].token)
         /\ file # Absent
         /\ file # handles[connection].token
         /\ file' = file )
       => /\ handles'[connection].destroyed
          /\ created' = created + 1
          /\ pc'[c] = "connecting"
          /\ conn'[c] = created'
          /\ conn'[c] # connection
          /\ handles'[conn'[c]].token = file]_vars

\* C6 (as claimed): a handle under construction is of the delegated-token
\* variant, carrying the content of the file, exactly when the file was
\* present when its configuration was read, and of the interactive variant
\* exactly when the file was absent.
C6_ModeByPresence ==
  \A h \in Connecting :
    /\ (IsDelegated(h) /\ handles[h].token = handles[h].cfgFile)
         <=> handles[h].cfgFile # Absent
    /\ handles[h].authenticator = "EXTERNALBROWSER" <=> handles[h].cfgFile = Absent

\* C7 (as claimed): a call that finds a cached handle built under the other
\* presence of the file than the present one discards it and builds a new
\* handle.
C7_ModeReevaluated ==
  [][\A c \in Callers :
       ( /\ Calls(c)
         /\ connection # NoConn
         /\ (handles[connection].cfgFile = Absent) # (file = Absent) )
       => /\ conn'[c] # connection
          /\ created' = created + 1]_vars

\* C8 (as claimed): a call that finds a cached handle that has not been
\* invalidated, while the file is in the state the handle's configuration
\* was read from, returns that handle and creates no connection.
C8_IdempotentAcquire ==
  [][\A c \in Callers :
       ( /\ Calls(c)
         /\ connection # NoConn
         /\ ~Stale(handles, connection)
         /\ handles[connection].cfgFile = file )
       => /\ pc'[c] = "executing"
          /\ conn'[c] = connection
          /\ connection' = connection
          /\ created' = created
          /\ handles'[connection] = handles[connection]]_vars

\* C9 (as claimed): after a failed construction the marker is cleared: a
\* rejected promise is never what connectionPromise holds.
C9_MarkerCleared == lib = "promise" => connectionPromise.state # "rejected"

\* C10 (as claimed): no statement is submitted on a handle that was already
\* invalidated or destroyed.
C10_NoUseAfterStale ==
  \A c \in Callers : \A i \in 1..Len(log[c]) :
    log[c][i].where = "execute" => ~log[c][i].staleAtSubmit

\* C11: the retry budget of a call is never negative; while a call runs,
\* each further attempt (each made after one invalidation) uses one unit of
\* it; so a call that returns has made at most budget + 1 attempts, exactly
\* one when the budget is 0, and exactly two when the budget is the default
\* and the first attempt failed with a recoverable error.
C11_RetryBudget ==
  [][\A c \in Callers :
       /\ retries'[c] >= 0
       /\ (pc[c] # "idle" /\ pc'[c] # "idle")
          => /\ retries'[c] + Len(log'[c]) = retries[c] + Len(log[c])
             /\ Len(log'[c]) \in {Len(log[c]), Len(log[c]) + 1}
       /\ (lib = "token" /\ settled'[c].kind # "none")
          => LET e == settled'[c] IN
             /\ Len(e.attempts) <= e.budget + 1
             /\ e.budget = 0 => Len(e.attempts) = 1
             /\ (e.budget = DefaultRetries /\ e.attempts[1].out \in Recoverable)
                => Len(e.attempts) = 2]_vars

\* A call made with budget 0 rejected with the recoverable error of its only
\* attempt.
C11_Witness ==
  \E c \in Callers :
    /\ lib = "token"
    /\ settled[c].kind = "rejected"
    /\ settled[c].budget = 0
    /\ Len(settled[c].attempts) = 1
    /\ settled[c].attempts[1].where = "execute"
    /\ settled[c].err \in Recoverable

\* C12 (as claimed): every connection that is connected and not destroyed
\* is the cached one, so there is at most one.
C12_SingleHandle ==
  \A h \in Handles :
    (handles[h].status = "ready" /\ ~handles[h].destroyed) => connection = h

\* C13 (as claimed): a call rejects only through a step made for it: the
\* connect it started or waited for failed, or the statement it submitted
\* on a handle that was neither destroyed nor invalidated failed, or it
\* could not read the file when it started the construction itself.
C13_FailureIsolation ==
  [][\A c \in Callers :
       settled'[c].kind = "rejected"
       => \/ pc[c] \in {"connecting", "awaiting"}
          \/ pc[c] = "executing" /\ ~log[c][Len(log[c])].staleAtSubmit
          \/ pc[c] = "idle" /\ connectionPromise.state = "null"]_vars

\* C14: a GET handler whose query has settled returns a response and does
\* not throw; the response has status 200 and the rows as its body when the
\* query resolved; when it rejected, the status is 500 and the body has the
\* one field error, and is the same whatever error the query rejected with.
C14_HttpBoundary ==
  \A c \in Callers :
    LET e == settled[c]
        res == GET(routeOf(c), e) IN
    e.kind # "none"
    => /\ ~res.threw
       /\ e.kind = "resolved" => res.status = 200 /\ res.body = e.rows
       /\ e.kind = "rejected"
          => /\ res.status = 500
             /\ DOMAIN res.body = {"error"}
             /\ \A n \in ErrNames :
                  GET(routeOf(c), [e EXCEPT !.err = n]) = res

\* The queries of two handlers waited for the same connect and rejected
\* with its error; each handler answers 500 with its own fixed message.
C14_Witness ==
  \E c, d \in Callers :
    /\ lib = "promise"
    /\ c # d
    /\ settled[c].kind = "rejected" /\ settled[c].err \in DriverErrors
    /\ settled[d].kind = "rejected"
    /\ GET(routeOf(c), settled[c]).status = 500
    /\ GET(routeOf(c), settled[c]).body # GET(routeOf(d), settled[d]).body

\* The execution of caller c fails with a recoverable error in this step.
FailsRecoverably(c) ==
  /\ lib = "token"
  /\ pc[c] = "executing"
  /\ \/ settled'[c].kind = "rejected" /\ settled'[c].err \in Recoverable
     \/ /\ Len(log'[c]) > Len(log[c])
        /\ log'[c][Len(log[c])].out \in Recoverable

\* C15 (as claimed): after an execution failed with a recoverable error,
\* the handle it ran on is not the cached handle, whatever budget is left.
C15_FailedHandleDropped ==
  [][\A c \in Callers : FailsRecoverably(c) => connection' # conn[c]]_vars

\* C16 (as claimed): while a handle is cached, cachedToken is the token in
\* that handle's configuration, and is null exactly when the handle is of
\* the interactive variant.
C16_CachedTokenConsistent ==
  (lib = "token" /\ connection # NoConn)
  => /\ cachedToken = handles[connection].token
     /\ cachedToken = Null <=> handles[connection].authenticator = "EXTERNALBROWSER"

\* C17 (as claimed): the handle getConnection() returns to a call, from the
\* cache or after a connect, is neither destroyed nor invalidated.
C17_StaleNeverReturned ==
  [][\A c \in Callers :
       (lib = "token" /\ pc[c] # "executing" /\ pc'[c] = "executing")
       => ~Stale(handles', conn'[c])]_vars

\* C18: the cached handle, the handle of a fulfilled connectionPromise and
\* every handle a call has been given are handles whose connect has
\* completed successfully.
C18_OnlyConnectedHandles ==
  /\ connection # NoConn => handles[connection].status = "ready"
  /\ connectionPromise.state = "fulfilled"
       => handles[connectionPromise.conn].status = "ready"
  /\ \A c \in Callers :
       pc[c] = "executing" => handles[conn[c]].status = "ready"

\* A call waits for the connect of its handle while another handle is
\* cached and another call runs on the cached one.
C18_Witness ==
  \E c, d \in Callers :
    /\ lib = "token"
    /\ pc[c] = "connecting"
    /\ handles[conn[c]].status = "connecting"
    /\ connection # NoConn
    /\ connection # conn[c]
    /\ pc[d] = "executing"
    /\ conn[d] = connection

\* C19: a call makes a further attempt only after a recoverable failure
\* with budget left, and then always: the step clears the cache, takes one
\* unit of the budget, and creates a new handle the call waits for and then
\* runs on; no two attempts of a call run on the same handle.
C19_RetryStep ==
  [][\A c \in Callers :
       /\ (lib = "token" /\ pc[c] # "idle" /\ Len(log'[c]) = Len(log[c]) + 1)
          => /\ retries[c] > 0
             /\ log'[c][Len(log[c])].out \in Recoverable
             /\ retries'[c] = retries[c] - 1
             /\ connection' = NoConn
             /\ pc'[c] = "connecting"
             /\ created' = created + 1
             /\ conn'[c] = created'
             /\ handles'[conn'[c]].status = "connecting"
       /\ (lib = "token" /\ pc[c] # "idle" /\ settled'[c].kind = "rejected"
             /\ settled'[c].err \in Recoverable)
          => retries[c] = 0
       /\ (lib = "token" /\ pc[c] = "connecting" /\ pc'[c] = "executing")
          => conn'[c] = conn[c]
       /\ \A i, j \in 1..Len(log'[c]) :
            i < j => log'[c][i].conn # log'[c][j].conn]_vars

\* A call runs its second attempt, after a recoverable failure of its first
\* execution, on another handle than the first.
C19_Witness ==
  \E c \in Callers :
    /\ lib = "token"
    /\ pc[c] = "executing"
    /\ Len(log[c]) = 2
    /\ log[c][1].where = "execute"
    /\ log[c][1].out \in Recoverable
    /\ log[c][2].conn = conn[c]
    /\ log[c][1].conn # conn[c]

\* Caller c calls while getConnection() will hand it the cached handle.
CallsOnCached(c) ==
  /\ Calls(c)
  /\ connection # NoConn
  /\ lib = "token" => \/ ~Truthy(getOAuthToken(file))
                      \/ getOAuthToken(file) = cachedToken

\* The step leaves the shared connection state as it was.
SharedStateKept ==
  /\ connection' = connection
  /\ cachedToken' = cachedToken
  /\ connectionPromise' = connectionPromise
  /\ created' = created
  /\ \A h \in Handles : handles'[h].destroyed => handles[h].destroyed

\* C20: a call that is handed the cached handle submits its statement on
\* it, and neither that step nor the step in which a statement completes
\* with success changes the cached handle, the cached token or the promise,
\* creates a connection or destroys one.
C20_SuccessKeepsState ==
  [][\A c \in Callers :
       /\ CallsOnCached(c)
          => pc'[c] = "executing" /\ conn'[c] = connection /\ SharedStateKept
       /\ (pc[c] = "executing" /\ settled'[c].kind = "resolved")
          => SharedStateKept]_vars

\* Every caller runs on the cached delegated-token handle: at least one of
\* them was handed it from the cache.
C20_Witness ==
  /\ lib = "token"
  /\ connection # NoConn
  /\ Truthy(cachedToken)
  /\ \A c \in Callers : pc[c] = "executing" /\ conn[c] = connection /\ Len(log[c]) = 1

\* C21: a call that finds a cached handle it cannot reuse destroys it and,
\* whether that release succeeds or fails, goes on to create the new handle
\* and wait for its connect; the call then gets that handle when the connect
\* resolves and the connect's error when it fails, and no call ever rejects
\* with the error of a release.
C21_BestEffortRelease ==
  [][\A c \in Callers :
       /\ (lib = "token" /\ Calls(c) /\ connection # NoConn /\ ~CallsOnCached(c))
          => /\ handles'[connection].destroyed
             /\ settled'[c].kind = "none"
             /\ pc'[c] = "connecting"
             /\ created' = created + 1
             /\ conn'[c] = created'
             /\ handles'[conn'[c]].status = "connecting"
             /\ log'[c][1].release \in {"ok", "failed"}
       /\ (lib = "token" /\ pc[c] = "connecting" /\ pc'[c] = "executing")
          => conn'[c] = conn[c] /\ connection' = conn[c]
       /\ (lib = "token" /\ pc[c] = "connecting" /\ settled'[c].kind = "rejected")
          => /\ settled'[c].err \in DriverErrors
             /\ settled'[c].err = settled'[c].attempts[Len(settled'[c].attempts)].out
       /\ settled'[c].kind = "rejected" => settled'[c].err # "DestroyFailed"]_vars

\* A call whose release of the old handle failed runs on the new handle,
\* which is the cached one.
C21_Witness ==
  \E c \in Callers :
    /\ lib = "token"
    /\ pc[c] = "executing"
    /\ log[c][1].release = "failed"
    /\ conn[c] = connection
    /\ ~handles[conn[c]].destroyed

\* The message m has the words of pat, in a row.
HasRun(m, pat) ==
  \E i \in 0..(Len(m) - Len(pat)) : \A j \in 1..Len(pat) : m[i + j] = pat[j]

\* C22 (as claimed): an error is classified recoverable exactly when its
\* message contains "access token expired" or "terminated connection", or
\* its code is 407002.
C22_Classification ==
  classification.called
  => LET e == classification.err IN
     classification.retryable
       <=> \/ e.hasMessage /\ HasRun(e.message, <<"access", "token", "expired">>)
           \/ e.hasMessage /\ HasRun(e.message, <<"terminated", "connection">>)
           \/ e.hasCode /\ e.code = SessionTimeoutCode

\* C22 (amended): an error is classified recoverable exactly when its
\* message contains "OAuth access token expired" or "terminated connection",
\* or its code is 407002; an error with no message and no code is not.
C22_ClassificationOAuth ==
  classification.called
  => LET e == classification.err IN
     /\ classification.retryable
          <=> \/ e.hasMessage
                 /\ HasRun(e.message, <<"OAuth", "access", "token", "expired">>)
              \/ e.hasMessage /\ HasRun(e.message, <<"terminated", "connection">>)
              \/ e.hasCode /\ e.code = SessionTimeoutCode
     /\ (~e.hasMessage /\ ~e.hasCode) => ~classification.retryable

\* An error that has only the code 407002 was classified recoverable.
C22_Witness ==
  /\ classification.called
  /\ classification.retryable
  /\ ~classification.err.hasMessage
  /\ classification.err.hasCode
  /\ classification.err.code = SessionTimeoutCode

\* C23: a call whose statement completed without error resolves with the
\* empty sequence when the driver passed no row list or an empty one, and
\* with the rows it passed, in their order, otherwise.
C23_EmptyResult ==
  \A c \in Callers :
    settled[c].kind = "resolved"
    => LET raw == settled[c].raw IN
       /\ (~raw.defined \/ raw.rows = <<>>) => settled[c].rows = <<>>
       /\ (raw.defined /\ raw.rows # <<>>)
          => /\ Len(settled[c].rows) = Len(raw.rows)
             /\ \A i \in 1..Len(raw.rows) : settled[c].rows[i] = raw.rows[i]

\* A call resolved with the empty sequence when the driver passed no row
\* list.
C23_Witness ==
  \E c \in Callers :
    /\ settled[c].kind = "resolved"
    /\ ~settled[c].raw.defined
    /\ settled[c].rows = <<>>

\* Caller c retries in this step: the catch block clears the cache and
\* calls query() again.
Retries(c) == lib = "token" /\ pc[c] # "idle" /\ Len(log'[c]) = Len(log[c]) + 1

\* C25: the clearing of the cache in a retry leaves no handle cached,
\* whether one was cached before or not (so also when another call has
\* cleared it already); with none cached before, no handle becomes stale
\* and the cached token stays; and the getConnection() that follows creates
\* a connection and waits for its connect.
C25_InvalidationIdempotent ==
  [][\A c \in Callers :
       Retries(c)
       => /\ connection' = NoConn
          /\ cachedToken' = cachedToken
          /\ settled'[c].kind = "none"
          /\ connection = NoConn
             => \A h \in Handles : Stale(handles', h) => Stale(handles, h)
          /\ pc'[c] = "connecting"
          /\ created' = created + 1
          /\ handles'[created'].status = "connecting"]_vars

\* Two calls failed on the same handle and both retry: the one that failed
\* second cleared a cache that the first had cleared already.
C25_Witness ==
  \E c, d \in Callers :
    /\ lib = "token"
    /\ c # d
    /\ pc[c] = "connecting" /\ pc[d] = "connecting"
    /\ Len(log[c]) = 2 /\ Len(log[d]) = 2
    /\ log[c][1].conn = log[d][1].conn
    /\ connection = NoConn

\* C26 (as claimed): when an execution fails with a recoverable error on a
\* handle that another call has invalidated already, while the handle that
\* call rebuilt is cached, the rebuilt handle stays in the cache.
C26_InvalidatesOnlyFailed ==
  [][\A c \in Callers :
       ( /\ FailsRecoverably(c)
         /\ handles[conn[c]].invalidated
         /\ connection # NoConn
         /\ connection # conn[c] )
       => connection' = connection]_vars

\* C27: a call that rejects after more than one attempt rejects with the
\* error of its last attempt.
C27_LastError ==
  \A c \in Callers :
    (settled[c].kind = "rejected" /\ Len(settled[c].attempts) > 1)
    => settled[c].err = settled[c].attempts[Len(settled[c].attempts)].out

\* A call rejected with the error of its retry, which is not the error of
\* its first attempt.
C27_Witness ==
  \E c \in Callers :
    /\ settled[c].kind = "rejected"
    /\ Len(settled[c].attempts) = 2
    /\ settled[c].err = settled[c].attempts[2].out
    /\ settled[c].err # settled[c].attempts[1].out

\* C24: when every connect and every statement execution completes, every
\* call in progress ends: it resolves with rows or rejects with an error.
C24_Termination ==
  \A c \in Callers :
    (pc[c] # "idle") ~> (settled[c].kind \in {"resolved", "rejected"})

\* A call made with the largest budget used all of it and then rejected.
C24_Witness ==
  \E c \in Callers :
    /\ lib = "token"
    /\ settled[c].kind = "rejected"
    /\ settled[c].budget = MaxRetries
    /\ Len(settled[c].attempts) = MaxRetries + 1

\* C28: in every reachable state of the Home page revenueData, customerData
\* and orderData each hold an array of records, whatever the three API
\* requests end with, a status-500 error object included.
C28_DataShape ==
  revenueData.isArray /\ customerData.isArray /\ orderData.isArray

\* C29: once the three fetch() calls have each settled, loading becomes
\* false in the end and stays false, whether they resolved or rejected; and
\* the datasets change only in a step after which the three fetch() calls
\* and the three json() calls have all resolved, so that a rejected request
\* or decoding leaves the three of them as they were.
C29_LoadingSettles ==
  /\ allSettled(responses) ~> [](loading = FALSE)
  /\ [][<<revenueData, customerData, orderData>>' # <<revenueData, customerData, orderData>>
          => allFulfilled(responses') /\ allFulfilled(bodies')]_vars
  /\ [](anyRejected(responses) \/ anyRejected(bodies)
          => /\ revenueData = jsonArray(<<>>)
             /\ customerData = jsonArray(<<>>)
             /\ orderData = jsonArray(<<>>))

\* The three requests were answered, one decoding failed and another one
\* succeeded with rows: fetchData is over, loading is false and the three
\* datasets are still empty.
C29_Witness ==
  /\ fetchPc = "done"
  /\ allSettled(responses)
  /\ anyRejected(bodies)
  /\ \E i \in RouteIds : bodies[i].state = "fulfilled" /\ bodies[i].value.rows # <<>>
  /\ loading = FALSE
  /\ revenueData = jsonArray(<<>>)
  /\ customerData = jsonArray(<<>>)
  /\ orderData = jsonArray(<<>>)

====
